---- MODULE Spec2Model ----
(***************************************************************************)
(* DatabaseOrdinary (dbms/src/Databases/DatabaseOrdinary.cpp):             *)
(*   - loadStoredObjects / startupTables: the bootstrap of the catalog     *)
(*     from the metadata directory, on a bounded thread pool;              *)
(*   - alterTable: the rewrite of one table's definition file through a    *)
(*     temporary file and a rename.                                        *)
(* The bootstrap is specified by Spec, alterTable by SpecAlter.            *)
(***************************************************************************)
EXTENDS Integers, Sequences, FiniteSets, TLC

\* ------------------------------------------------------------------ bounds
\* Largest number of definition files in the metadata directory.
MaxFiles == 3
\* Number of worker threads of the pool (SettingMaxThreads().getAutoValue()).
MaxThreads == 2

\* File names are non-empty strings over the letters 1 < 2, of length <= 2.
FileNameUniverse == {<<1>>, <<1, 2>>, <<2>>, <<2, 1>>}
\* Tables that may already be in the catalog map when the bootstrap starts.
PreexistingNames == {<<2>>}
\* What a definition file holds: a table definition, a dictionary definition,
\* text the parser rejects, or text for which parseQueryFromMetadata returns
\* no AST.
FileKinds == {"table", "dictionary", "malformed", "empty"}

NoError == [code |-> "none", object |-> <<>>]
Error(code, object) == [code |-> code, object |-> object]

VARIABLES
    files,                  \* the metadata directory: file name -> kind, or "absent"
    enumerated,             \* file names in the order the directory iterator delivered them
    file_names,             \* std::map<std::string, ASTPtr>: entries in key order
    total_dictionaries,     \* size_t total_dictionaries
    tables,                 \* the catalog map: names of the attached tables
    tables_at_start,        \* the catalog map as it was when the bootstrap began
    jobs,                   \* every job given to the pool, in submission order
    first_failed,           \* index of the job whose exception was thrown first, or 0
    pc,                     \* position of the thread running loadStoredObjects
    cursor,                 \* position of the running for-loop in its container
    startup_list,           \* the entries of `tables` startupTables iterates over
    registered,             \* addConfigRepository has been called
    dict_running,           \* the dictionaries whose attach is in progress
    dictionaries,           \* dictionaries attached, in attach order
    error,                  \* the exception loadStoredObjects has thrown
    pending_error           \* exception in flight while the stack unwinds

VARIABLES
    fs,                     \* the files of one table: path -> content, or Absent
    fsync_metadata,         \* context.getSettingsRef().fsync_metadata
    apc,                    \* position of each alterTable call
    metadata,               \* each call's StorageInMemoryMetadata argument
    statement,              \* each call's local String statement
    definition_read,        \* the text each call read from the definition file
    aerror,                 \* the exception each call has thrown
    initial_text,           \* the definition file's text before any alter
    last_renamed,           \* the call whose rename succeeded last, or "none"
    found_tmp               \* calls whose exclusive create found the temp file

alterVars == <<fs, fsync_metadata, apc, metadata, statement, definition_read, aerror,
               initial_text, last_renamed, found_tmp>>

loadVars == <<files, tables_at_start, first_failed, enumerated, file_names,
              total_dictionaries, tables, jobs, pc, cursor, startup_list, registered,
              dict_running, dictionaries, error, pending_error>>

VARIABLES
    progress_pc,            \* "off", "running" while the pool runs the jobs, "waited"
    tables_processed,       \* std::atomic<size_t> tables_processed
    in_flight,              \* values of ++tables_processed not yet given to the log,
                            \* those that are a multiple of the batch or the total
    others_in_flight,       \* how many other values are not yet given to the log
    messages,               \* the messages logged at a multiple of the batch or at the total
    last_messages           \* number of messages the latest logAboutProgress call logged

progressVars == <<progress_pc, tables_processed, in_flight, others_in_flight, messages,
                  last_messages>>

vars == <<loadVars, alterVars, progressVars>>

\* No concurrent phase is being followed.
ProgressQuiescent ==
    /\ progress_pc = "off"
    /\ tables_processed = 0
    /\ in_flight = {}
    /\ others_in_flight = 0
    /\ messages = {}
    /\ last_messages = 0

\* ------------------------------------------------------------ std::string
\* operator< of std::string: lexicographic comparison.
LexLess(a, b) ==
    \E i \in 1..(Len(a) + 1) :
        /\ \A j \in 1..(i - 1) : j <= Len(b) /\ a[j] = b[j]
        /\ \/ i = Len(a) + 1 /\ Len(b) >= i
           \/ i <= Len(a) /\ i <= Len(b) /\ a[i] < b[i]

\* ---------------------------------------------------------------- std::map
\* An insertion that ignores the key order (a vector's push_back).
MapAssignUnordered(m, key, ast) ==
    IF \E i \in 1..Len(m) : m[i].name = key
    THEN [i \in 1..Len(m) |-> IF m[i].name = key THEN [name |-> key, ast |-> ast] ELSE m[i]]
    ELSE Append(m, [name |-> key, ast |-> ast])

\* file_names[file_name] = ast: the entry is replaced if the key exists and is
\* otherwise inserted at its place in key order.
MapAssign(m, key, ast) ==
    IF \E i \in 1..Len(m) : m[i].name = key
    THEN [i \in 1..Len(m) |-> IF m[i].name = key THEN [name |-> key, ast |-> ast] ELSE m[i]]
    ELSE LET before == Cardinality({i \in 1..Len(m) : LexLess(m[i].name, key)})
         IN  SubSeq(m, 1, before) \o <<[name |-> key, ast |-> ast]>>
                 \o SubSeq(m, before + 1, Len(m))

\* The keys of a set of names in std::map iteration order.
RECURSIVE InKeyOrder(_)
InKeyOrder(S) ==
    IF S = {} THEN <<>>
    ELSE LET least == CHOOSE x \in S : \A y \in S \ {x} : LexLess(x, y)
         IN  <<least>> \o InKeyOrder(S \ {least})

\* ------------------------------------------------------------- ThreadPool
Job(kind, name) == [kind |-> kind, name |-> name, st |-> "queued", cause |-> "none"]

Finished(j) == j.st \in {"done", "failed"}

\* scheduled_jobs == 0: what ThreadPool::wait() blocks on.
PoolIdle == \A i \in 1..Len(jobs) : Finished(jobs[i])

Running == {i \in 1..Len(jobs) : jobs[i].st = "running"}

JobError(j) ==
    IF j.kind = "attach"
    THEN Error("CANNOT_CREATE_TABLE_FROM_METADATA", j.name)
    ELSE Error("STARTUP_FAILED", j.name)

\* A wait() that rethrows the exception that was thrown first in time.
FirstFailureByCompletion(js) ==
    IF first_failed = 0 THEN NoError ELSE JobError(js[first_failed])

\* What wait() rethrows once every job has finished: the failure of the
\* earliest submitted job that failed, if any.
FirstFailure(js) ==
    LET failed == {i \in 1..Len(js) : js[i].st = "failed"}
    IN  IF failed = {} THEN NoError
        ELSE JobError(js[CHOOSE i \in failed : \A k \in failed : i <= k])

\* ------------------------------------------------------- tryAttachTable
\* A tryAttachTable that swallows the exception instead of rethrowing it.
TryAttachTableSwallow(cause) == "done"

\* The state in which the job running tryAttachTable ends: any exception of
\* createTableFromAST or attachTable is wrapped and rethrown.
TryAttachTable(cause) == IF cause = "none" THEN "done" ELSE "failed"

Present == {f \in FileNameUniverse : files[f] # "absent"}

Enumerated == {enumerated[i] : i \in 1..Len(enumerated)}

\* ----------------------------------------- loadStoredObjects: discovery
\* A parse that reports malformed text by returning no AST (throw_on_error
\* = false).
ParseQueryFromMetadataNoThrow(kind) ==
    IF kind \in {"malformed", "empty"} THEN "null" ELSE kind

\* parseQueryFromMetadata(full_path, /*throw_on_error*/ true, ...): the AST of
\* the definition (named here by its kind), no AST, or an exception.
ParseQueryFromMetadata(kind) ==
    IF kind = "malformed" THEN "throw"
    ELSE IF kind = "empty" THEN "null"
    ELSE kind

\* One call of the lambda given to iterateMetadataFiles, for a file the
\* directory iterator delivers; the iterator's order is arbitrary.
EnumerateFile(f) ==
    /\ pc = "discover"
    /\ f \in Present \ Enumerated
    /\ enumerated' = Append(enumerated, f)
    /\ LET ast == ParseQueryFromMetadata(files[f])
       IN  IF ast = "throw"
           THEN /\ error' = Error("CANNOT_PARSE_TEXT", f)
                /\ pc' = "failed"
                /\ UNCHANGED <<file_names, total_dictionaries>>
           ELSE /\ IF ast = "null"
                   THEN UNCHANGED <<file_names, total_dictionaries>>
                   ELSE /\ file_names' = MapAssign(file_names, f, ast)
                        /\ total_dictionaries' =
                               total_dictionaries + (IF ast = "dictionary" THEN 1 ELSE 0)
                /\ UNCHANGED <<error, pc>>
    /\ UNCHANGED <<progressVars, alterVars, files, tables_at_start, first_failed, tables, jobs,
                   cursor, startup_list, registered, dict_running, dictionaries,
                   pending_error>>

\* iterateMetadataFiles has returned; the pool is constructed and the attach
\* loop starts at file_names.begin().
EndEnumeration ==
    /\ pc = "discover"
    /\ Present = Enumerated
    /\ pc' = "attach_loop"
    /\ cursor' = 1
    /\ UNCHANGED <<progressVars, alterVars, files, tables_at_start, first_failed, enumerated,
                   file_names, total_dictionaries, tables, jobs, startup_list,
                   registered, dict_running, dictionaries, error, pending_error>>

\* ------------------------------------- loadStoredObjects: attach tables
\* An attach loop that calls tryAttachTable itself, as the dictionary loop
\* calls tryAttachDictionary: the first exception ends the loop.
SubmitAttachInline ==
    /\ pc = "attach_loop"
    /\ cursor <= Len(file_names)
    /\ \/ /\ file_names[cursor].ast = "dictionary"
          /\ cursor' = cursor + 1
          /\ UNCHANGED <<jobs, tables, error, pc, first_failed>>
       \/ /\ file_names[cursor].ast # "dictionary"
          /\ file_names[cursor].name \notin tables
          /\ jobs' = Append(jobs, [kind |-> "attach", name |-> file_names[cursor].name,
                                   st |-> "done", cause |-> "none"])
          /\ tables' = tables \cup {file_names[cursor].name}
          /\ cursor' = cursor + 1
          /\ UNCHANGED <<error, pc, first_failed>>
       \/ /\ file_names[cursor].ast # "dictionary"
          /\ jobs' = Append(jobs, [kind |-> "attach", name |-> file_names[cursor].name,
                                   st |-> "failed", cause |-> "throws"])
          /\ first_failed' = IF first_failed = 0 THEN Len(jobs) + 1 ELSE first_failed
          /\ error' = Error("CANNOT_CREATE_TABLE_FROM_METADATA", file_names[cursor].name)
          /\ pc' = "failed"
          /\ UNCHANGED <<tables, cursor>>
    /\ UNCHANGED <<progressVars, alterVars, files, tables_at_start, enumerated, file_names,
                   total_dictionaries, startup_list, registered, dict_running,
                   dictionaries, pending_error>>

\* One iteration of "for (const auto & name_with_query : file_names)": a table
\* definition is given to the pool, a dictionary definition is passed over.
SubmitAttach ==
    /\ pc = "attach_loop"
    /\ cursor <= Len(file_names)
    /\ jobs' = IF file_names[cursor].ast # "dictionary"
               THEN Append(jobs, Job("attach", file_names[cursor].name))
               ELSE jobs
    /\ cursor' = cursor + 1
    /\ UNCHANGED <<progressVars, alterVars, files, tables_at_start, first_failed, enumerated,
                   file_names, total_dictionaries, tables, pc, startup_list,
                   registered, dict_running, dictionaries, error, pending_error>>

\* scheduleOrThrowOnError throws in the attach loop: the exception leaves
\* loadStoredObjects, whose ThreadPool is destroyed on the way out.
SubmitAttachThrows ==
    /\ pc = "attach_loop"
    /\ cursor <= Len(file_names)
    /\ file_names[cursor].ast # "dictionary"
    /\ pending_error' = Error("CANNOT_SCHEDULE_TASK", file_names[cursor].name)
    /\ pc' = "unwind"
    /\ UNCHANGED <<progressVars, alterVars, files, tables_at_start, first_failed, enumerated,
                   file_names, total_dictionaries, tables, jobs, cursor, startup_list,
                   registered, dict_running, dictionaries, error>>

\* The attach loop is over: pool.wait().
EndAttachLoop ==
    /\ pc = "attach_loop"
    /\ cursor > Len(file_names)
    /\ pc' = "wait_attach"
    /\ UNCHANGED <<progressVars, alterVars, files, tables_at_start, first_failed, enumerated,
                   file_names, total_dictionaries, tables, jobs, cursor, startup_list,
                   registered, dict_running, dictionaries, error, pending_error>>

\* ~ThreadPool during unwinding: the threads are joined, then the exception
\* reaches the caller.
Unwind ==
    /\ pc = "unwind"
    /\ PoolIdle
    /\ error' = pending_error
    /\ pc' = "failed"
    /\ UNCHANGED <<progressVars, alterVars, files, tables_at_start, first_failed, enumerated,
                   file_names, total_dictionaries, tables, jobs, cursor, startup_list,
                   registered, dict_running, dictionaries, pending_error>>

\* The attach loop followed by startupTables(pool) with no pool.wait() between.
WaitAttachSkipped ==
    /\ pc = "wait_attach"
    /\ pc' = "startup_begin"
    /\ UNCHANGED <<progressVars, alterVars, files, tables_at_start, first_failed, enumerated,
                   file_names, total_dictionaries, tables, jobs, cursor, startup_list,
                   registered, dict_running, dictionaries, error, pending_error>>

\* pool.wait() returns, or rethrows a job's exception; startupTables(pool)
\* follows its return.
WaitAttach ==
    /\ pc = "wait_attach"
    /\ PoolIdle
    /\ IF FirstFailure(jobs) # NoError
       THEN /\ error' = FirstFailure(jobs)
            /\ pc' = "failed"
       ELSE /\ pc' = "startup_begin"
            /\ UNCHANGED error
    /\ UNCHANGED <<progressVars, alterVars, files, tables_at_start, first_failed, enumerated,
                   file_names, total_dictionaries, tables, jobs, cursor, startup_list,
                   registered, dict_running, dictionaries, pending_error>>

\* ------------------------------------------------------ the pool's workers
SetJob(i, st, cause) == [jobs EXCEPT ![i] = [@ EXCEPT !.st = st, !.cause = cause]]

\* A free worker thread takes a queued job and begins to run it.
StartJob(i) ==
    /\ i \in 1..Len(jobs)
    /\ jobs[i].st = "queued"
    /\ Cardinality(Running) < MaxThreads
    /\ jobs' = SetJob(i, "running", "none")
    /\ UNCHANGED <<progressVars, alterVars, files, tables_at_start, first_failed, enumerated,
                   file_names, total_dictionaries, tables, pc, cursor, startup_list,
                   registered, dict_running, dictionaries, error, pending_error>>

\* What attachTable throws for a name: the catalog map holds one entry per name.
AttachTableCause(name, construction) ==
    IF construction # "none" THEN construction
    ELSE IF name \in tables THEN "exists" ELSE "none"

\* An attach that puts the name into the catalog map before the table is
\* constructed, so that a failed construction leaves its entry behind.
FinishAttachInsertAlways(i, construction) ==
    /\ i \in 1..Len(jobs)
    /\ jobs[i].kind = "attach"
    /\ jobs[i].st = "running"
    /\ LET cause == AttachTableCause(jobs[i].name, construction)
       IN  /\ tables' = tables \cup {jobs[i].name}
           /\ jobs' = SetJob(i, TryAttachTable(cause), cause)
           /\ first_failed' = IF first_failed = 0 /\ TryAttachTable(cause) = "failed"
                              THEN i ELSE first_failed
    /\ UNCHANGED <<progressVars, alterVars, files, tables_at_start, enumerated, file_names,
                   total_dictionaries, pc, cursor, startup_list, registered,
                   dict_running, dictionaries, error, pending_error>>

\* The attach job's lambda runs to its end: tryAttachTable (createTableFromAST,
\* which may throw, then attachTable), then logAboutProgress.
FinishAttach(i, construction) ==
    /\ i \in 1..Len(jobs)
    /\ jobs[i].kind = "attach"
    /\ jobs[i].st = "running"
    /\ LET cause == AttachTableCause(jobs[i].name, construction)
       IN  /\ tables' = IF cause = "none" THEN tables \cup {jobs[i].name} ELSE tables
           /\ jobs' = SetJob(i, TryAttachTable(cause), cause)
           /\ first_failed' = IF first_failed = 0 /\ TryAttachTable(cause) = "failed"
                              THEN i ELSE first_failed
    /\ UNCHANGED <<progressVars, alterVars, files, tables_at_start, enumerated, file_names,
                   total_dictionaries, pc, cursor, startup_list, registered,
                   dict_running, dictionaries, error, pending_error>>

\* startupOneTable runs to its end: table->startup(), which may throw, then
\* logAboutProgress.
FinishStartup(i, cause) ==
    /\ i \in 1..Len(jobs)
    /\ jobs[i].kind = "startup"
    /\ jobs[i].st = "running"
    /\ jobs' = SetJob(i, IF cause = "none" THEN "done" ELSE "failed", cause)
    /\ first_failed' = IF first_failed = 0 /\ cause # "none" THEN i ELSE first_failed
    /\ UNCHANGED <<progressVars, alterVars, files, tables_at_start, enumerated, file_names,
                   total_dictionaries, tables, pc, cursor, startup_list, registered,
                   dict_running, dictionaries, error, pending_error>>

\* ------------------------------------------------------------ startupTables
\* A startupTables that starts only the tables this bootstrap has attached.
StartupBeginOnlyNew ==
    /\ pc = "startup_begin"
    /\ IF Cardinality(tables \ tables_at_start) = 0
       THEN /\ pc' = "register"
            /\ UNCHANGED <<startup_list, cursor>>
       ELSE /\ startup_list' = InKeyOrder(tables \ tables_at_start)
            /\ cursor' = 1
            /\ pc' = "startup_loop"
    /\ UNCHANGED <<progressVars, alterVars, files, tables_at_start, first_failed, enumerated,
                   file_names, total_dictionaries, tables, jobs, registered,
                   dict_running, dictionaries, error, pending_error>>

\* total_tables = tables.size(); with no table the function returns at once,
\* otherwise the loop over `tables` starts.
StartupBegin ==
    /\ pc = "startup_begin"
    /\ IF Cardinality(tables) = 0
       THEN /\ pc' = "register"
            /\ UNCHANGED <<startup_list, cursor>>
       ELSE /\ startup_list' = InKeyOrder(tables)
            /\ cursor' = 1
            /\ pc' = "startup_loop"
    /\ UNCHANGED <<progressVars, alterVars, files, tables_at_start, first_failed, enumerated,
                   file_names, total_dictionaries, tables, jobs, registered,
                   dict_running, dictionaries, error, pending_error>>

\* One iteration of "for (const auto & table : tables)".
SubmitStartup ==
    /\ pc = "startup_loop"
    /\ cursor <= Len(startup_list)
    /\ jobs' = Append(jobs, Job("startup", startup_list[cursor]))
    /\ cursor' = cursor + 1
    /\ UNCHANGED <<progressVars, alterVars, files, tables_at_start, first_failed, enumerated,
                   file_names, total_dictionaries, tables, pc, startup_list,
                   registered, dict_running, dictionaries, error, pending_error>>

\* scheduleOrThrowOnError throws in the startup loop: catch (...).
SubmitStartupThrows ==
    /\ pc = "startup_loop"
    /\ cursor <= Len(startup_list)
    /\ pending_error' = Error("CANNOT_SCHEDULE_TASK", startup_list[cursor])
    /\ pc' = "startup_catch"
    /\ UNCHANGED <<progressVars, alterVars, files, tables_at_start, first_failed, enumerated,
                   file_names, total_dictionaries, tables, jobs, cursor, startup_list,
                   registered, dict_running, dictionaries, error>>

\* A catch block that rethrows without thread_pool.wait().
StartupCatchNoWait ==
    /\ pc = "startup_catch"
    /\ error' = pending_error
    /\ pc' = "failed"
    /\ UNCHANGED <<progressVars, alterVars, files, tables_at_start, first_failed, enumerated,
                   file_names, total_dictionaries, tables, jobs, cursor, startup_list,
                   registered, dict_running, dictionaries, pending_error>>

\* catch (...) { thread_pool.wait(); throw; }: wait() may itself rethrow a
\* job's exception, which then replaces the caught one.
StartupCatch ==
    /\ pc = "startup_catch"
    /\ PoolIdle
    /\ error' = IF FirstFailure(jobs) # NoError THEN FirstFailure(jobs) ELSE pending_error
    /\ pc' = "failed"
    /\ UNCHANGED <<progressVars, alterVars, files, tables_at_start, first_failed, enumerated,
                   file_names, total_dictionaries, tables, jobs, cursor, startup_list,
                   registered, dict_running, dictionaries, pending_error>>

\* The startup loop is over: thread_pool.wait().
EndStartupLoop ==
    /\ pc = "startup_loop"
    /\ cursor > Len(startup_list)
    /\ pc' = "wait_startup"
    /\ UNCHANGED <<progressVars, alterVars, files, tables_at_start, first_failed, enumerated,
                   file_names, total_dictionaries, tables, jobs, cursor, startup_list,
                   registered, dict_running, dictionaries, error, pending_error>>

\* A startupTables that returns after its loop without thread_pool.wait().
WaitStartupSkipped ==
    /\ pc = "wait_startup"
    /\ pc' = "register"
    /\ UNCHANGED <<progressVars, alterVars, files, tables_at_start, first_failed, enumerated,
                   file_names, total_dictionaries, tables, jobs, cursor, startup_list,
                   registered, dict_running, dictionaries, error, pending_error>>

\* thread_pool.wait() at the end of startupTables returns or rethrows.
WaitStartup ==
    /\ pc = "wait_startup"
    /\ PoolIdle
    /\ IF FirstFailure(jobs) # NoError
       THEN /\ error' = FirstFailure(jobs)
            /\ pc' = "failed"
       ELSE /\ pc' = "register"
            /\ UNCHANGED error
    /\ UNCHANGED <<progressVars, alterVars, files, tables_at_start, first_failed, enumerated,
                   file_names, total_dictionaries, tables, jobs, cursor, startup_list,
                   registered, dict_running, dictionaries, pending_error>>

\* ------------------------- loadStoredObjects: repository and dictionaries
\* external_loader.addConfigRepository(getDatabaseName(), ...); the
\* dictionary loop then starts at file_names.begin().
Register ==
    /\ pc = "register"
    /\ registered' = TRUE
    /\ cursor' = 1
    /\ pc' = "dict_loop"
    /\ UNCHANGED <<progressVars, alterVars, files, tables_at_start, first_failed, enumerated,
                   file_names, total_dictionaries, tables, jobs, startup_list,
                   dict_running, dictionaries, error, pending_error>>

\* The second loop over file_names passes over a table definition.
SkipTable ==
    /\ pc = "dict_loop"
    /\ cursor <= Len(file_names)
    /\ file_names[cursor].ast # "dictionary"
    /\ cursor' = cursor + 1
    /\ UNCHANGED <<progressVars, alterVars, files, tables_at_start, first_failed, enumerated,
                   file_names, total_dictionaries, tables, jobs, pc, startup_list,
                   registered, dict_running, dictionaries, error, pending_error>>

\* An attach that is started without being awaited: the loop goes on while
\* it is in progress.
BeginDictionaryDetached ==
    /\ pc = "dict_loop"
    /\ cursor <= Len(file_names)
    /\ file_names[cursor].ast = "dictionary"
    /\ dict_running' = dict_running \cup {file_names[cursor].name}
    /\ cursor' = cursor + 1
    /\ UNCHANGED <<progressVars, alterVars, files, tables_at_start, first_failed, enumerated,
                   file_names, total_dictionaries, tables, jobs, pc, startup_list,
                   registered, dictionaries, error, pending_error>>

\* tryAttachDictionary is called for a dictionary definition, on the thread
\* that runs loadStoredObjects.
BeginDictionary ==
    /\ pc = "dict_loop"
    /\ cursor <= Len(file_names)
    /\ file_names[cursor].ast = "dictionary"
    /\ dict_running' = dict_running \cup {file_names[cursor].name}
    /\ pc' = "dict_attach"
    /\ UNCHANGED <<progressVars, alterVars, files, tables_at_start, first_failed, enumerated,
                   file_names, total_dictionaries, tables, jobs, cursor, startup_list,
                   registered, dictionaries, error, pending_error>>

\* A loop that notes the exception of tryAttachDictionary and goes on with the
\* next definition.
EndDictionaryContinue(cause) ==
    /\ pc = "dict_attach"
    /\ dict_running' = dict_running \ {file_names[cursor].name}
    /\ IF cause = "none"
       THEN /\ dictionaries' = Append(dictionaries, file_names[cursor].name)
            /\ UNCHANGED error
       ELSE /\ error' = Error("CANNOT_CREATE_DICTIONARY_FROM_METADATA",
                              file_names[cursor].name)
            /\ UNCHANGED dictionaries
    /\ cursor' = cursor + 1
    /\ pc' = "dict_loop"
    /\ UNCHANGED <<progressVars, alterVars, files, tables_at_start, first_failed, enumerated,
                   file_names, total_dictionaries, tables, jobs, startup_list,
                   registered, pending_error>>

\* tryAttachDictionary returns (logAboutProgress follows and the loop goes
\* on), or attachDictionary throws and the wrapped exception leaves
\* loadStoredObjects.
EndDictionary(cause) ==
    /\ pc = "dict_attach"
    /\ dict_running' = dict_running \ {file_names[cursor].name}
    /\ IF cause = "none"
       THEN /\ dictionaries' = Append(dictionaries, file_names[cursor].name)
            /\ cursor' = cursor + 1
            /\ pc' = "dict_loop"
            /\ UNCHANGED error
       ELSE /\ error' = Error("CANNOT_CREATE_DICTIONARY_FROM_METADATA",
                              file_names[cursor].name)
            /\ pc' = "failed"
            /\ UNCHANGED <<dictionaries, cursor>>
    /\ UNCHANGED <<progressVars, alterVars, files, tables_at_start, first_failed, enumerated,
                   file_names, total_dictionaries, tables, jobs, startup_list,
                   registered, pending_error>>

\* The dictionary loop is over: loadStoredObjects returns.
Return ==
    /\ pc = "dict_loop"
    /\ cursor > Len(file_names)
    /\ pc' = "done"
    /\ UNCHANGED <<progressVars, alterVars, files, tables_at_start, first_failed, enumerated,
                   file_names, total_dictionaries, tables, jobs, cursor, startup_list,
                   registered, dict_running, dictionaries, error, pending_error>>


\* =============================================================== alterTable
\* The two files of the altered table: table_metadata_path and
\* table_metadata_tmp_path (table_metadata_path + ".tmp").
Paths == {"metadata", "tmp"}
\* The content of a path: no file, or a file with its text.
Absent == [exists |-> FALSE, text |-> <<>>]
File(text) == [exists |-> TRUE, text |-> text]

\* The concurrent callers of alterTable on the table.
Alterers == {"a1", "a2"}

\* An AST that is not there (a null ASTPtr).
Null == 0
\* The value a caller's metadata supplies for a field it wants changed.
NewValue(a) == IF a = "a1" THEN 2 ELSE 3

Fields == <<"columns", "indices", "constraints", "order_by", "primary_key",
            "ttl_table", "settings">>

\* ParserCreateQuery on the text of a definition file: the text has one token
\* per clause; anything that is not a whole definition is rejected.
ParseQuery(text) ==
    IF Len(text) # Len(Fields) THEN [ok |-> FALSE]
    ELSE [ok |-> TRUE,
          ast |-> [columns |-> text[1], indices |-> text[2], constraints |-> text[3],
                   order_by |-> text[4], primary_key |-> text[5],
                   ttl_table |-> text[6], settings |-> text[7]]]

\* getObjectDefinitionFromCreateQuery: the text of a definition.
GetObjectDefinitionFromCreateQuery(ast) ==
    <<ast.columns, ast.indices, ast.constraints, ast.order_by, ast.primary_key,
      ast.ttl_table, ast.settings>>

\* A replacement that sets ORDER BY whenever `md` has one, as it does for
\* PRIMARY KEY.
ReplacePartsOrderByAppears(ast, md) ==
    [columns     |-> md.columns,
     indices     |-> md.indices,
     constraints |-> md.constraints,
     order_by    |-> IF md.order_by_ast # Null THEN md.order_by_ast ELSE ast.order_by,
     primary_key |-> IF md.primary_key_ast # Null
                     THEN md.primary_key_ast ELSE ast.primary_key,
     ttl_table   |-> IF md.ttl_for_table_ast # Null
                     THEN md.ttl_for_table_ast ELSE ast.ttl_table,
     settings    |-> IF md.settings_ast # Null THEN md.settings_ast ELSE ast.settings]

\* A replacement that sets TTL only where the definition already has one, as
\* it does for ORDER BY.
ReplacePartsTtlCannotAppear(ast, md) ==
    [columns     |-> md.columns,
     indices     |-> md.indices,
     constraints |-> md.constraints,
     order_by    |-> IF md.order_by_ast # Null /\ ast.order_by # Null
                     THEN md.order_by_ast ELSE ast.order_by,
     primary_key |-> IF md.primary_key_ast # Null
                     THEN md.primary_key_ast ELSE ast.primary_key,
     ttl_table   |-> IF md.ttl_for_table_ast # Null /\ ast.ttl_table # Null
                     THEN md.ttl_for_table_ast ELSE ast.ttl_table,
     settings    |-> IF md.settings_ast # Null THEN md.settings_ast ELSE ast.settings]

\* The replacement of the parts of the AST by those of `md`: columns, indices
\* and constraints always; ORDER BY if both have one; PRIMARY KEY, TTL and
\* SETTINGS if `md` has one.
ReplaceParts(ast, md) ==
    [columns     |-> md.columns,
     indices     |-> md.indices,
     constraints |-> md.constraints,
     order_by    |-> IF md.order_by_ast # Null /\ ast.order_by # Null
                     THEN md.order_by_ast ELSE ast.order_by,
     primary_key |-> IF md.primary_key_ast # Null
                     THEN md.primary_key_ast ELSE ast.primary_key,
     ttl_table   |-> IF md.ttl_for_table_ast # Null
                     THEN md.ttl_for_table_ast ELSE ast.ttl_table,
     settings    |-> IF md.settings_ast # Null THEN md.settings_ast ELSE ast.settings]

\* The definitions a table's file may hold before the alter.
StoredDefinitions ==
    {GetObjectDefinitionFromCreateQuery(
        [columns |-> 1, indices |-> 1, constraints |-> 1, order_by |-> o,
         primary_key |-> k, ttl_table |-> t, settings |-> g]) :
        o \in {Null, 1}, k \in {Null, 1}, t \in {Null, 1}, g \in {Null, 1}}

\* The StorageInMemoryMetadata values caller `a` may pass: columns, indices and
\* constraints are always there; the first caller passes any combination of
\* the four optional parts, the second one none or all of them.
Metadatas(a) ==
    {md \in [columns : {NewValue(a)}, indices : {NewValue(a)},
             constraints : {NewValue(a)}, order_by_ast : {Null, NewValue(a)},
             primary_key_ast : {Null, NewValue(a)},
             ttl_for_table_ast : {Null, NewValue(a)},
             settings_ast : {Null, NewValue(a)}] :
        a = "a1" \/ Cardinality({md.order_by_ast, md.primary_key_ast,
                                  md.ttl_for_table_ast, md.settings_ast}) = 1}

NoMetadata ==
    [columns |-> Null, indices |-> Null, constraints |-> Null, order_by_ast |-> Null,
     primary_key_ast |-> Null, ttl_for_table_ast |-> Null, settings_ast |-> Null]

\* No alterTable is running and none will: the state of the table's files
\* during the bootstrap.
AlterQuiescent ==
    /\ fs = [p \in Paths |-> Absent]
    /\ fsync_metadata = FALSE
    /\ apc = [a \in Alterers |-> "off"]
    /\ metadata = [a \in Alterers |-> NoMetadata]
    /\ statement = [a \in Alterers |-> <<>>]
    /\ definition_read = [a \in Alterers |-> <<>>]
    /\ aerror = [a \in Alterers |-> "none"]
    /\ initial_text = <<>>
    /\ last_renamed = "none"
    /\ found_tmp = {}

\* O_WRONLY | O_CREAT without O_EXCL: the open succeeds on an existing file.
OpenNotExclusive(content) == "ok"

\* O_WRONLY | O_CREAT | O_EXCL on a path: the open fails if the file exists.
OpenExclusive(content) == IF content = Absent THEN "ok" ELSE "exists"

\* A catch block that removes the definition file in place of the temporary one.
RemoveDefinitionOnRenameFailure(f) == [f EXCEPT !["metadata"] = Absent]

\* What the catch block of the rename removes: the temporary file.
RemoveOnRenameFailure(f) == [f EXCEPT !["tmp"] = Absent]

\* Lines 240-278: the definition is read to the end of the file, parsed, its
\* parts are replaced and the new text is formatted into `statement`.
ReadAndRewrite(a, md) ==
    /\ apc[a] = "idle"
    /\ metadata' = [metadata EXCEPT ![a] = md]
    /\ definition_read' = [definition_read EXCEPT ![a] = fs["metadata"].text]
    /\ LET parsed == ParseQuery(fs["metadata"].text)
       IN  IF ~fs["metadata"].exists \/ ~parsed.ok
           THEN /\ apc' = [apc EXCEPT ![a] = "failed"]
                /\ aerror' = [aerror EXCEPT ![a] =
                       IF fs["metadata"].exists THEN "SYNTAX_ERROR" ELSE "FILE_DOESNT_EXIST"]
                /\ UNCHANGED statement
           ELSE /\ statement' = [statement EXCEPT ![a] =
                       GetObjectDefinitionFromCreateQuery(ReplaceParts(parsed.ast, md))]
                /\ apc' = [apc EXCEPT ![a] = "create"]
                /\ UNCHANGED aerror
    /\ UNCHANGED <<progressVars, loadVars, fs, fsync_metadata, initial_text, last_renamed,
                   found_tmp>>

\* A create inside the try block of the rename: its failure removes the
\* temporary file it found.
CreateTmpRemovesOnFailure(a) ==
    /\ apc[a] = "create"
    /\ IF OpenExclusive(fs["tmp"]) = "ok"
       THEN /\ fs' = [fs EXCEPT !["tmp"] = File(<<>>)]
            /\ apc' = [apc EXCEPT ![a] = "write"]
            /\ UNCHANGED aerror
       ELSE /\ apc' = [apc EXCEPT ![a] = "failed"]
            /\ aerror' = [aerror EXCEPT ![a] = "ConcurrentMutationError"]
            /\ fs' = [fs EXCEPT !["tmp"] = Absent]
    /\ found_tmp' = IF fs["tmp"].exists THEN found_tmp \cup {a} ELSE found_tmp
    /\ UNCHANGED <<progressVars, loadVars, definition_read, fsync_metadata, metadata, statement,
                   initial_text, last_renamed>>

\* A create whose failure is ignored: the call goes on with the temporary
\* file of the other call.
CreateTmpIgnoresFailure(a) ==
    /\ apc[a] = "create"
    /\ found_tmp' = IF fs["tmp"].exists THEN found_tmp \cup {a} ELSE found_tmp
    /\ fs' = [fs EXCEPT !["tmp"] = File(<<>>)]
    /\ apc' = [apc EXCEPT ![a] = "write"]
    /\ UNCHANGED <<progressVars, loadVars, definition_read, fsync_metadata, metadata, statement,
                   aerror, initial_text, last_renamed>>

\* Line 280: WriteBufferFromFile out(table_metadata_tmp_path, ..., O_EXCL): the
\* empty temporary file is created, or the constructor throws because it exists.
CreateTmp(a) ==
    /\ apc[a] = "create"
    /\ IF OpenExclusive(fs["tmp"]) = "ok"
       THEN /\ fs' = [fs EXCEPT !["tmp"] = File(<<>>)]
            /\ apc' = [apc EXCEPT ![a] = "write"]
            /\ UNCHANGED aerror
       ELSE /\ apc' = [apc EXCEPT ![a] = "failed"]
            /\ aerror' = [aerror EXCEPT ![a] = "ConcurrentMutationError"]
            /\ UNCHANGED fs
    /\ found_tmp' = IF fs["tmp"].exists THEN found_tmp \cup {a} ELSE found_tmp
    /\ UNCHANGED <<progressVars, loadVars, definition_read, fsync_metadata, metadata, statement,
                   initial_text, last_renamed>>

\* Lines 281-282: writeString and out.next() bring the file to a longer prefix
\* of the statement, up to the whole of it.
Write(a, n) ==
    /\ apc[a] = "write"
    /\ n \in (Len(fs["tmp"].text) + 1)..Len(statement[a])
    /\ fs' = [fs EXCEPT !["tmp"] = File(SubSeq(statement[a], 1, n))]
    /\ apc' = [apc EXCEPT ![a] =
                  IF n < Len(statement[a]) THEN "write"
                  ELSE IF fsync_metadata THEN "sync" ELSE "close"]
    /\ UNCHANGED <<progressVars, loadVars, definition_read, fsync_metadata, metadata, statement,
                   aerror, initial_text, last_renamed, found_tmp>>

\* Lines 283-284: out.sync().
Sync(a) ==
    /\ apc[a] = "sync"
    /\ apc' = [apc EXCEPT ![a] = "close"]
    /\ UNCHANGED <<progressVars, loadVars, definition_read, fs, fsync_metadata, metadata, statement,
                   aerror, initial_text, last_renamed, found_tmp>>

\* Line 285: out.close().
Close(a) ==
    /\ apc[a] = "close"
    /\ apc' = [apc EXCEPT ![a] = "rename"]
    /\ UNCHANGED <<progressVars, loadVars, definition_read, fs, fsync_metadata, metadata, statement,
                   aerror, initial_text, last_renamed, found_tmp>>

\* writeString, next, sync or close throws: the exception leaves the block of
\* lines 279-286 and alterTable; no handler is on its way.
WriteBlockThrows(a) ==
    /\ apc[a] \in {"write", "sync", "close"}
    /\ aerror' = [aerror EXCEPT ![a] =
                     IF apc[a] = "write" THEN "CANNOT_WRITE_TO_FILE_DESCRIPTOR"
                     ELSE IF apc[a] = "sync" THEN "CANNOT_FSYNC"
                     ELSE "CANNOT_CLOSE_FILE"]
    /\ apc' = [apc EXCEPT ![a] = "failed"]
    /\ UNCHANGED <<progressVars, loadVars, definition_read, fs, fsync_metadata, metadata, statement,
                   initial_text, last_renamed, found_tmp>>

\* Line 291: renameTo replaces the definition file by the temporary file in
\* one step.
Rename(a) ==
    /\ apc[a] = "rename"
    /\ fs' = [fs EXCEPT !["metadata"] = fs["tmp"], !["tmp"] = Absent]
    /\ last_renamed' = a
    /\ apc' = [apc EXCEPT ![a] = "done"]
    /\ UNCHANGED <<progressVars, loadVars, definition_read, fsync_metadata, metadata, statement,
                   aerror, initial_text, found_tmp>>

\* Lines 293-297: renameTo throws; the temporary file is removed and the
\* exception rethrown.
RenameThrows(a) ==
    /\ apc[a] = "rename"
    /\ fs' = RemoveOnRenameFailure(fs)
    /\ aerror' = [aerror EXCEPT ![a] = "RenameFailure"]
    /\ apc' = [apc EXCEPT ![a] = "failed"]
    /\ UNCHANGED <<progressVars, loadVars, definition_read, fsync_metadata, metadata, statement,
                   initial_text, last_renamed, found_tmp>>

\* The process dies while the call has its temporary file on disk.
Crash(a) ==
    /\ apc[a] \in {"write", "sync", "close", "rename"}
    /\ apc' = [apc EXCEPT ![a] = "crashed"]
    /\ UNCHANGED <<progressVars, loadVars, definition_read, fs, fsync_metadata, metadata, statement,
                   aerror, initial_text, last_renamed, found_tmp>>

\* No bootstrap is running: the state of loadStoredObjects while the table
\* is altered.
LoadQuiescent ==
    /\ files = [f \in FileNameUniverse |-> "absent"]
    /\ enumerated = <<>>
    /\ file_names = <<>>
    /\ total_dictionaries = 0
    /\ tables = {}
    /\ tables_at_start = {}
    /\ jobs = <<>>
    /\ first_failed = 0
    /\ pc = "off"
    /\ cursor = 1
    /\ startup_list = <<>>
    /\ registered = FALSE
    /\ dict_running = {}
    /\ dictionaries = <<>>
    /\ error = NoError
    /\ pending_error = NoError

InitAlter ==
    /\ LoadQuiescent
    /\ initial_text \in StoredDefinitions
    /\ fs = [p \in Paths |-> IF p = "metadata" THEN File(initial_text) ELSE Absent]
    /\ fsync_metadata \in BOOLEAN
    /\ apc = [a \in Alterers |-> "idle"]
    /\ metadata = [a \in Alterers |-> NoMetadata]
    /\ statement = [a \in Alterers |-> <<>>]
    /\ definition_read = [a \in Alterers |-> <<>>]
    /\ aerror = [a \in Alterers |-> "none"]
    /\ last_renamed = "none"
    /\ found_tmp = {}
    /\ ProgressQuiescent

NextAlter ==
    \/ \E a \in Alterers : \E md \in Metadatas(a) : ReadAndRewrite(a, md)
    \/ \E a \in Alterers : CreateTmp(a)
    \/ \E a \in Alterers : \E n \in 1..Len(Fields) : Write(a, n)
    \/ \E a \in Alterers : Sync(a)
    \/ \E a \in Alterers : Close(a)
    \/ \E a \in Alterers : WriteBlockThrows(a)
    \/ \E a \in Alterers : Rename(a)
    \/ \E a \in Alterers : RenameThrows(a)
    \/ \E a \in Alterers : Crash(a)

SpecAlter == InitAlter /\ [][NextAlter]_vars

\* ------------------------------------------------------------------ Init
Init ==
    /\ files \in [FileNameUniverse -> FileKinds \cup {"absent"}]
    /\ Cardinality({f \in FileNameUniverse : files[f] # "absent"}) <= MaxFiles
    /\ enumerated = <<>>
    /\ file_names = <<>>
    /\ total_dictionaries = 0
    /\ tables \in SUBSET PreexistingNames
    /\ tables_at_start = tables
    /\ jobs = <<>>
    /\ first_failed = 0
    /\ pc = "discover"
    /\ cursor = 1
    /\ startup_list = <<>>
    /\ registered = FALSE
    /\ dict_running = {}
    /\ dictionaries = <<>>
    /\ error = NoError
    /\ pending_error = NoError
    /\ AlterQuiescent
    /\ ProgressQuiescent


\* ------------------------------------------------------------------ Spec
Causes == {"none", "throws"}

Next ==
    \/ \E f \in FileNameUniverse : EnumerateFile(f)
    \/ EndEnumeration
    \/ SubmitAttach
    \/ SubmitAttachThrows
    \/ EndAttachLoop
    \/ Unwind
    \/ WaitAttach
    \/ \E i \in DOMAIN jobs : StartJob(i)
    \/ \E i \in DOMAIN jobs, c \in Causes : FinishAttach(i, c)
    \/ \E i \in DOMAIN jobs, c \in Causes : FinishStartup(i, c)
    \/ StartupBegin
    \/ SubmitStartup
    \/ SubmitStartupThrows
    \/ StartupCatch
    \/ EndStartupLoop
    \/ WaitStartup
    \/ Register
    \/ SkipTable
    \/ BeginDictionary
    \/ \E c \in Causes : EndDictionary(c)
    \/ Return

Spec == Init /\ [][Next]_vars

\* ================================================ progress of a pool phase
PRINT_MESSAGE_EACH_N_OBJECTS == 256

\* The number of jobs of the phase: total_tables.
TotalObjects == 1000

\* A condition that wants the batch boundary and the elapsed timer together.
LogAboutProgressBoth(processed, elapsed) ==
    processed % PRINT_MESSAGE_EACH_N_OBJECTS = 0 /\ elapsed

\* The condition of logAboutProgress: TRUE when LOG_INFO is reached. elapsed
\* is what watch.compareAndRestart(PRINT_MESSAGE_EACH_N_SECONDS) answers.
LogAboutProgress(processed, elapsed) ==
    processed % PRINT_MESSAGE_EACH_N_OBJECTS = 0 \/ elapsed

\* The counts that are followed one by one: a call with any other count logs
\* when the timer has elapsed, whatever the count is.
Watched(processed) ==
    processed % PRINT_MESSAGE_EACH_N_OBJECTS = 0 \/ processed = TotalObjects

\* A job has done its work (tryAttachTable or table->startup() has returned)
\* and evaluates ++tables_processed, the argument of logAboutProgress.
IncrementProcessed ==
    /\ progress_pc = "running"
    /\ tables_processed < TotalObjects
    /\ Cardinality(in_flight) + others_in_flight < MaxThreads
    /\ tables_processed' = tables_processed + 1
    /\ IF Watched(tables_processed + 1)
       THEN /\ in_flight' = in_flight \cup {tables_processed + 1}
            /\ UNCHANGED others_in_flight
       ELSE /\ others_in_flight' = others_in_flight + 1
            /\ UNCHANGED in_flight
    /\ UNCHANGED <<loadVars, alterVars, progress_pc, messages, last_messages>>

\* The job's call logAboutProgress(log, processed, total_tables, watch).
LogAboutProgressCall(processed, elapsed) ==
    /\ progress_pc = "running"
    /\ processed \in 1..tables_processed
    /\ IF Watched(processed)
       THEN /\ processed \in in_flight
            /\ in_flight' = in_flight \ {processed}
            /\ UNCHANGED others_in_flight
       ELSE /\ others_in_flight > 0
            /\ others_in_flight' = others_in_flight - 1
            /\ UNCHANGED in_flight
    /\ IF LogAboutProgress(processed, elapsed)
       THEN /\ last_messages' = 1
            /\ messages' =
                   IF Watched(processed)
                   THEN messages \cup
                            {[processed |-> processed,
                              timed |-> processed % PRINT_MESSAGE_EACH_N_OBJECTS # 0]}
                   ELSE messages
       ELSE /\ last_messages' = 0
            /\ UNCHANGED messages
    /\ UNCHANGED <<loadVars, alterVars, progress_pc, tables_processed>>

\* pool.wait() / thread_pool.wait() returns: every job has finished.
ProgressWait ==
    /\ progress_pc = "running"
    /\ tables_processed = TotalObjects
    /\ in_flight = {}
    /\ others_in_flight = 0
    /\ progress_pc' = "waited"
    /\ UNCHANGED <<loadVars, alterVars, tables_processed, in_flight, others_in_flight,
                   messages, last_messages>>

InitProgress ==
    /\ LoadQuiescent
    /\ AlterQuiescent
    /\ progress_pc = "running"
    /\ tables_processed = 0
    /\ in_flight = {}
    /\ others_in_flight = 0
    /\ messages = {}
    /\ last_messages = 0

NextProgress ==
    \/ IncrementProcessed
    \/ \E processed \in 1..TotalObjects, elapsed \in BOOLEAN :
          LogAboutProgressCall(processed, elapsed)
    \/ ProgressWait

SpecProgress == InitProgress /\ [][NextProgress]_vars

\* ============================================================== properties
AttachJobs == {i \in DOMAIN jobs : jobs[i].kind = "attach"}
StartupJobs == {i \in DOMAIN jobs : jobs[i].kind = "startup"}
TableFiles == {f \in Present : files[f] = "table"}
DictionaryFiles == {f \in Present : files[f] = "dictionary"}
\* The dictionaries whose attach has begun.
DictionariesBegun ==
    dict_running \cup {dictionaries[i] : i \in DOMAIN dictionaries}
        \cup (IF error.code = "CANNOT_CREATE_DICTIONARY_FROM_METADATA"
              THEN {error.object} ELSE {})

\* C1: a table startup unit has begun (it is running or has finished) only if
\* every submitted table attach unit has completed, with success or failure.
C1_StartupAfterAllAttach ==
    \A i \in StartupJobs :
        jobs[i].st # "queued" => \A k \in AttachJobs : Finished(jobs[k])

C1_Witness ==
    /\ \E i \in StartupJobs : jobs[i].st = "running"
    /\ Cardinality(AttachJobs) >= 2

\* C2: the database is registered as a dictionary configuration source only
\* when every table of the catalog map has a startup unit and every startup
\* unit has completed, and a dictionary attach has begun only if the
\* registration has happened; with no table at all the registration still
\* comes before the first dictionary.
C2_RegisterAfterStartupBeforeDictionaries ==
    /\ registered =>
          /\ \A i \in DOMAIN jobs : jobs[i].st = "done"
          /\ \A t \in tables : \E i \in StartupJobs : jobs[i].name = t
    /\ DictionariesBegun # {} => registered
    /\ pc \in {"dict_loop", "dict_attach", "done"} => registered

C2_Witness ==
    /\ registered
    /\ dict_running # {}
    /\ Cardinality(StartupJobs) >= 2

\* C5: once the construction or the attach of a table has thrown, the
\* bootstrap cannot succeed: no startup unit is ever submitted, the database
\* is never registered, no dictionary attach begins, loadStoredObjects does
\* not return normally, and it goes on until it has thrown to its caller.
C5_AttachFailureAbortsBootstrap ==
    (\E i \in AttachJobs : jobs[i].cause # "none") =>
        /\ StartupJobs = {}
        /\ ~registered
        /\ DictionariesBegun = {}
        /\ pc # "done"
        /\ pc = "failed" \/ ENABLED Next
        /\ pc = "failed" =>
              error.code \in {"CANNOT_CREATE_TABLE_FROM_METADATA", "CANNOT_SCHEDULE_TASK"}

C5_Witness ==
    /\ pc = "failed"
    /\ error.code = "CANNOT_CREATE_TABLE_FROM_METADATA"
    /\ \E i \in AttachJobs : jobs[i].st = "done"
    /\ DictionaryFiles # {}

\* C6: when the failure of a table attach is raised to the caller, every
\* table definition of the directory has had its attach unit submitted, and
\* every one of these units has run to completion.
C6_SiblingAttachesRunToCompletion ==
    error.code = "CANNOT_CREATE_TABLE_FROM_METADATA" =>
        \A f \in TableFiles :
            \E i \in AttachJobs : jobs[i].name = f /\ Finished(jobs[i])

C6_Witness ==
    /\ error.code = "CANNOT_CREATE_TABLE_FROM_METADATA"
    /\ Cardinality(TableFiles) = 3
    /\ Cardinality({i \in AttachJobs : jobs[i].st = "failed"}) = 1
    /\ Cardinality({i \in AttachJobs : jobs[i].st = "done"}) = 2
    /\ jobs[1].st = "failed"

\* C7: the failure of a table attach or of a table startup that reaches the
\* caller is the failure of the earliest submitted unit among those that
\* failed, whichever of them failed first in time.
C7_FirstFailureBySubmissionOrder ==
    error.code \in {"CANNOT_CREATE_TABLE_FROM_METADATA", "STARTUP_FAILED"} =>
        \E i \in DOMAIN jobs :
            /\ jobs[i].st = "failed"
            /\ \A k \in 1..(i - 1) : jobs[k].st # "failed"
            /\ error = JobError(jobs[i])

C7_Witness ==
    /\ error.code = "STARTUP_FAILED"
    /\ first_failed # 0
    /\ \E i \in 1..(first_failed - 1) : jobs[i].st = "failed"

\* C8: if a definition file does not parse, loadStoredObjects throws a parse
\* error that names a malformed file, and nothing else has happened: no unit
\* was submitted, the catalog map is as it was, the database is not
\* registered and no dictionary attach has begun; with a malformed file in
\* the directory the bootstrap never gets past the discovery.
C8_ParseFailureAbortsBeforeAttach ==
    /\ (\E f \in Present : files[f] = "malformed") => pc \in {"discover", "failed"}
    /\ (pc = "failed" /\ \E f \in Present : files[f] = "malformed") =>
          /\ error.code = "CANNOT_PARSE_TEXT"
          /\ files[error.object] = "malformed"
          /\ jobs = <<>>
          /\ tables = tables_at_start
          /\ ~registered
          /\ DictionariesBegun = {}

C8_Witness ==
    /\ pc = "failed"
    /\ error.code = "CANNOT_PARSE_TEXT"
    /\ Len(file_names) = 2
    /\ tables # {}

\* The names in a sequence of names are strictly increasing in the
\* lexicographic order and skip no member of S below the last of them.
InitialSegmentInOrder(seq, S) ==
    /\ \A i \in DOMAIN seq : seq[i] \in S
    /\ \A i, k \in DOMAIN seq : i < k => LexLess(seq[i], seq[k])
    /\ \A i \in DOMAIN seq : \A f \in S : LexLess(f, seq[i]) => \E k \in 1..(i - 1) : seq[k] = f

AttachSubmissions == [i \in 1..Cardinality(AttachJobs) |-> jobs[i].name]

\* C9: whatever the order in which the directory iterator delivers the file
\* names, the table attach units are submitted, and the dictionaries
\* attached, in the lexicographic order of the file names, none being passed
\* over; once the loops are over, every table and every dictionary
\* definition of the directory has been taken, so that the two sequences are
\* determined by the set of files alone.
C9_ProcessingOrderIsFilenameOrder ==
    /\ InitialSegmentInOrder(AttachSubmissions, TableFiles)
    /\ InitialSegmentInOrder(dictionaries, DictionaryFiles)
    /\ pc \in {"wait_attach", "startup_begin", "startup_loop", "wait_startup", "register",
               "dict_loop", "dict_attach", "done"}
          => Len(AttachSubmissions) = Cardinality(TableFiles)
    /\ pc = "done" => Len(dictionaries) = Cardinality(DictionaryFiles)

C9_Witness ==
    /\ pc = "done"
    /\ Len(enumerated) = 3
    /\ LexLess(enumerated[3], enumerated[2]) /\ LexLess(enumerated[2], enumerated[1])
    /\ Len(dictionaries) = 2
    /\ Len(AttachSubmissions) = 1

\* C10: at no instant are two dictionary attaches in progress, and while the
\* attach of a dictionary is in progress, the attach of every dictionary
\* with a smaller file name has completed and that of no dictionary with a
\* larger file name has begun.
C10_DictionariesOneAtATimeInOrder ==
    /\ Cardinality(dict_running) <= 1
    /\ \A d \in dict_running : \A f \in DictionaryFiles :
          /\ LexLess(f, d) => f \notin dict_running /\ \E i \in DOMAIN dictionaries : dictionaries[i] = f
          /\ LexLess(d, f) => f \notin DictionariesBegun
    /\ \A i, k \in DOMAIN dictionaries : i < k => LexLess(dictionaries[i], dictionaries[k])

C10_Witness ==
    /\ dict_running # {}
    /\ Len(dictionaries) = 2

\* The calls that have their temporary file open or waiting for the rename.
TmpHolders == {a \in Alterers : apc[a] \in {"write", "sync", "close", "rename"}}

\* The calls whose exclusive create has succeeded.
CreatedTmp ==
    {a \in Alterers :
        \/ apc[a] \in {"write", "sync", "close", "rename", "done", "crashed"}
        \/ aerror[a] \in {"CANNOT_WRITE_TO_FILE_DESCRIPTOR", "CANNOT_FSYNC",
                          "CANNOT_CLOSE_FILE", "RenameFailure"}}

\* C3: at every state of every alterTable (so also if the process stops
\* there), the definition file exists and holds a whole definition: the text
\* it held before the alters as long as no rename has succeeded (whatever
\* was created, written, failed or crashed meanwhile), and otherwise the
\* whole new text of the call whose rename succeeded last.
C3_DefinitionFileOldOrNew ==
    /\ fs["metadata"].exists
    /\ ParseQuery(fs["metadata"].text).ok
    /\ fs["metadata"].text =
          IF last_renamed = "none" THEN initial_text ELSE statement[last_renamed]
    /\ last_renamed # "none" =>
          /\ apc[last_renamed] = "done"
          /\ ParseQuery(statement[last_renamed]).ok
          /\ ParseQuery(statement[last_renamed]).ast.columns = NewValue(last_renamed)

C3_Witness ==
    /\ pc = "off"
    /\ last_renamed = "none"
    /\ \E a, b \in Alterers :
          /\ aerror[a] = "RenameFailure"
          /\ apc[b] = "crashed"
          /\ fs["tmp"].exists
          /\ Len(fs["tmp"].text) \in 1..(Len(Fields) - 1)

\* C4: two calls never have the temporary file at the same time; a call whose
\* exclusive create finds the temporary file fails with the error of that
\* create and goes no further, the file it found being that of the other
\* call, whose create succeeded; so of two calls that meet at the create,
\* exactly one succeeds.
C4_ExclusiveCreateOneWinner ==
    /\ Cardinality(TmpHolders) <= 1
    /\ \A a \in Alterers :
          a \in found_tmp <=> aerror[a] = "ConcurrentMutationError"
    /\ \A a \in found_tmp :
          /\ apc[a] = "failed"
          /\ a \notin CreatedTmp
          /\ \E b \in Alterers \ {a} : b \in CreatedTmp
    /\ found_tmp # Alterers

C4_Witness ==
    /\ pc = "off"
    /\ \E a, b \in Alterers :
          /\ a \in found_tmp
          /\ apc[b] = "done"
          /\ statement[a] # statement[b]

\* C11: when the attach of a dictionary has failed, loadStoredObjects has
\* thrown the wrapped exception that names this dictionary, no attach is in
\* progress, the dictionaries attached are exactly the dictionary definitions
\* with a smaller file name, and no dictionary with a larger file name has
\* been or will be attached.
C11_FirstDictionaryFailureAborts ==
    error.code = "CANNOT_CREATE_DICTIONARY_FROM_METADATA" =>
        /\ pc = "failed"
        /\ dict_running = {}
        /\ error.object \in DictionaryFiles
        /\ \A f \in DictionaryFiles :
              (\E i \in DOMAIN dictionaries : dictionaries[i] = f) <=> LexLess(f, error.object)
        /\ ~ENABLED Next

C11_Witness ==
    /\ error.code = "CANNOT_CREATE_DICTIONARY_FROM_METADATA"
    /\ Len(dictionaries) = 1
    /\ \E f \in DictionaryFiles : LexLess(error.object, f)

\* C12 (as claimed): once a call that had created the temporary file has
\* failed and returned, and no other call has the temporary file in use, no
\* temporary file exists.
C12_TmpDeletedOnAnyFailure ==
    \A a \in Alterers :
        (apc[a] = "failed" /\ a \in CreatedTmp /\ TmpHolders = {}
            /\ \A b \in Alterers : apc[b] # "crashed")
        => ~fs["tmp"].exists

\* The calls that have formatted their new statement.
Rewritten == {a \in Alterers : statement[a] # <<>>}
\* The definition a call read and the one it wrote, as the parser sees them.
OldAst(a) == ParseQuery(definition_read[a]).ast
NewAst(a) == ParseQuery(statement[a]).ast

\* C13: in the new definition of every call, for each combination of present
\* and absent: a definition without ordering key has none afterwards, a
\* definition with one keeps it when the metadata supplies none, and takes
\* the supplied one when both have one; the definition file of a call whose
\* rename succeeded last reads back the same way.
C13_OrderByReplacedOnlyIfBothHaveOne ==
    \A a \in Rewritten :
        /\ ParseQuery(definition_read[a]).ok /\ ParseQuery(statement[a]).ok
        /\ OldAst(a).order_by = Null => NewAst(a).order_by = Null
        /\ metadata[a].order_by_ast = Null => NewAst(a).order_by = OldAst(a).order_by
        /\ (OldAst(a).order_by # Null /\ metadata[a].order_by_ast # Null)
              => NewAst(a).order_by = metadata[a].order_by_ast
        /\ last_renamed = a
              => ParseQuery(fs["metadata"].text).ast.order_by = NewAst(a).order_by

C13_Witness ==
    /\ pc = "off"
    /\ \E a \in Alterers :
          /\ last_renamed = a
          /\ OldAst(a).order_by = Null
          /\ metadata[a].order_by_ast # Null
          /\ ParseQuery(fs["metadata"].text).ast.order_by = Null
          /\ ParseQuery(fs["metadata"].text).ast.primary_key = metadata[a].primary_key_ast
          /\ metadata[a].primary_key_ast # Null

\* C14: in the new definition of every call, primary key, TTL and settings
\* each have the supplied value if the metadata supplies one and the old
\* value if it does not (the supplied values differ from the old ones, so a
\* part has changed if and only if it was supplied), and columns, indices
\* and constraints have the metadata's values; so with none of the optional
\* parts supplied, only columns, indices and constraints differ from the
\* definition that was read.
C14_OptionalPartsReplacedIffSupplied ==
    \A a \in Rewritten :
        /\ ParseQuery(definition_read[a]).ok /\ ParseQuery(statement[a]).ok
        /\ NewAst(a).columns = metadata[a].columns
        /\ NewAst(a).indices = metadata[a].indices
        /\ NewAst(a).constraints = metadata[a].constraints
        /\ (NewAst(a).primary_key # OldAst(a).primary_key)
              <=> metadata[a].primary_key_ast # Null
        /\ (NewAst(a).ttl_table # OldAst(a).ttl_table)
              <=> metadata[a].ttl_for_table_ast # Null
        /\ (NewAst(a).settings # OldAst(a).settings)
              <=> metadata[a].settings_ast # Null
        /\ metadata[a].primary_key_ast # Null
              => NewAst(a).primary_key = metadata[a].primary_key_ast
        /\ metadata[a].ttl_for_table_ast # Null
              => NewAst(a).ttl_table = metadata[a].ttl_for_table_ast
        /\ metadata[a].settings_ast # Null
              => NewAst(a).settings = metadata[a].settings_ast
        /\ (metadata[a].order_by_ast = Null /\ metadata[a].primary_key_ast = Null
               /\ metadata[a].ttl_for_table_ast = Null /\ metadata[a].settings_ast = Null)
              => /\ NewAst(a).order_by = OldAst(a).order_by
                 /\ NewAst(a).primary_key = OldAst(a).primary_key
                 /\ NewAst(a).ttl_table = OldAst(a).ttl_table
                 /\ NewAst(a).settings = OldAst(a).settings

C14_Witness ==
    /\ pc = "off"
    /\ \E a \in Alterers :
          /\ last_renamed = a
          /\ metadata[a].order_by_ast = Null /\ metadata[a].primary_key_ast = Null
          /\ metadata[a].ttl_for_table_ast = Null /\ metadata[a].settings_ast = Null
          /\ definition_read[a] = <<1, 1, 1, 1, 1, 1, 1>>
          /\ fs["metadata"].text =
                <<metadata[a].columns, metadata[a].indices, metadata[a].constraints,
                  1, 1, 1, 1>>

\* The text of the definition read by `a` with the parts of a's metadata
\* replaced in it and nothing else.
OnlyPatchOf(a, text) ==
    GetObjectDefinitionFromCreateQuery(ReplaceParts(ParseQuery(text).ast, metadata[a]))

\* C18 (as claimed): it never happens that the two calls have read the same
\* definition, both have returned with success, and the definition file is
\* that definition with the parts of only one call's metadata replaced, a
\* part that the other call had set being back to its old value.
C18_NoAlterSilentlyLost ==
    ~ \E a, b \in Alterers :
        /\ a # b
        /\ apc[a] = "done" /\ apc[b] = "done"
        /\ definition_read[a] = definition_read[b]
        /\ fs["metadata"].text = OnlyPatchOf(b, definition_read[b])
        /\ metadata[a].primary_key_ast # Null
        /\ ParseQuery(fs["metadata"].text).ast.primary_key
              = ParseQuery(definition_read[a]).ast.primary_key

\* C18 (amended): a call that reaches its exclusive create while the
\* temporary file of the other call is on disk fails with the error of the
\* create and never changes the definition file; when both calls return
\* with success, neither has met the temporary file of the other, and the
\* definition file is the definition read by the call whose rename came
\* last with the parts of that call's metadata replaced in it, whether or
\* not that definition had the other call's parts.
C18_LostUnlessCreatesMeet ==
    /\ \A a \in found_tmp :
          /\ apc[a] = "failed"
          /\ aerror[a] = "ConcurrentMutationError"
          /\ last_renamed # a
    /\ (\A a \in Alterers : apc[a] = "done") =>
          /\ found_tmp = {}
          /\ fs["metadata"].text = OnlyPatchOf(last_renamed, definition_read[last_renamed])
          /\ \E b \in Alterers \ {last_renamed} :
                definition_read[last_renamed] \in {initial_text, statement[b]}

C18_Witness ==
    /\ pc = "off"
    /\ \E a, b \in Alterers :
          /\ a # b
          /\ apc[a] = "done" /\ apc[b] = "done"
          /\ last_renamed = b
          /\ definition_read[a] = definition_read[b]
          /\ metadata[a].primary_key_ast # Null
          /\ ParseQuery(fs["metadata"].text).ast.primary_key = Null

\* A temporary file is on disk and no running call owns it: its call has
\* crashed, or has failed in the write block.
LeftoverTmp == fs["tmp"].exists /\ TmpHolders = {}

\* C20: from a state with a leftover temporary file, no step of any
\* alterTable changes the definition file or the temporary file, and a call
\* that leaves its exclusive create has failed there; so the file stays a
\* leftover and no later alter of the table succeeds.
C20_LeftoverTmpBlocksLaterAlters ==
    [][LeftoverTmp =>
          /\ fs' = fs
          /\ LeftoverTmp'
          /\ \A a \in Alterers :
                (apc[a] = "create" /\ apc'[a] # "create") =>
                    /\ apc'[a] = "failed"
                    /\ aerror'[a] = "ConcurrentMutationError"
          /\ \A a \in Alterers : apc'[a] = "done" => apc[a] = "done"]_vars

C20_Witness ==
    /\ LeftoverTmp
    /\ \E a, b \in Alterers :
          /\ apc[a] = "crashed"
          /\ Len(fs["tmp"].text) \in 1..(Len(Fields) - 1)
          /\ b \in found_tmp
          /\ apc[b] = "failed"
          /\ fs["metadata"].text = initial_text

\* The names whose attach unit has completed without an exception.
Attached == {jobs[i].name : i \in {k \in AttachJobs : jobs[k].st = "done"}}

\* C16: at every state of the bootstrap the catalog map holds, besides the
\* entries it had when the bootstrap began, exactly the names whose attach
\* unit has completed successfully; a unit whose construction or attach threw
\* has added nothing, and no name has two successful attach units.
C16_MapEntryIffAttachSucceeded ==
    /\ tables = tables_at_start \cup Attached
    /\ \A i \in AttachJobs :
          jobs[i].st = "failed" =>
              (jobs[i].name \in tables => jobs[i].name \in tables_at_start)
    /\ \A i, k \in AttachJobs :
          (jobs[i].name = jobs[k].name /\ jobs[i].st = "done" /\ jobs[k].st = "done")
              => i = k
    /\ Attached \cap tables_at_start = {}

C16_Witness ==
    /\ Cardinality(AttachJobs) = 3
    /\ \E i, k, m \in AttachJobs :
          /\ jobs[i].st = "done"
          /\ jobs[k].st = "failed" /\ jobs[k].cause = "throws"
          /\ jobs[m].st = "running"
          /\ tables = {jobs[i].name}

StartupReturned == pc \in {"register", "dict_loop", "dict_attach", "done"}

\* C17: when startupTables has returned in a bootstrap in which no unit
\* failed, every table of the catalog map, those that were in it before the
\* bootstrap included, has had startup called exactly once and no other
\* startup was called; with an empty map no startup unit exists.
C17_StartupOncePerTableOfMap ==
    (StartupReturned /\ \A i \in DOMAIN jobs : jobs[i].st # "failed") =>
        /\ \A t \in tables :
              Cardinality({i \in StartupJobs : jobs[i].name = t /\ jobs[i].st = "done"}) = 1
        /\ \A i \in StartupJobs : jobs[i].name \in tables /\ jobs[i].st = "done"
        /\ Cardinality(StartupJobs) = Cardinality(tables)
        /\ tables = {} => StartupJobs = {}

C17_Witness ==
    /\ pc = "done"
    /\ tables_at_start # {}
    /\ Cardinality(tables) = 3
    /\ Cardinality(tables \ tables_at_start) = 2
    /\ \A i \in DOMAIN jobs : jobs[i].st = "done"

\* C19: outside startupTables no startup unit is queued or running: when
\* the function has returned, or has thrown a unit's failure or the failure
\* of a submission part-way through its loop, every unit it submitted has
\* finished.
C19_NoStartupUnitOutlivesStartupTables ==
    pc \notin {"startup_loop", "startup_catch", "wait_startup"} =>
        \A i \in StartupJobs : Finished(jobs[i])

C19_Witness ==
    /\ pc = "failed"
    /\ error.code = "CANNOT_SCHEDULE_TASK"
    /\ Cardinality(StartupJobs) = 2
    /\ Len(startup_list) = 3

\* The multiples of the batch size up to the number of objects.
BatchCounts ==
    {k * PRINT_MESSAGE_EACH_N_OBJECTS :
        k \in 1..(TotalObjects \div PRINT_MESSAGE_EACH_N_OBJECTS)}

MessageCounts == {m.processed : m \in messages}

\* C15 as stated: when the phase is over, a message has been logged at every
\* multiple of the batch size and at the total, and no call logged more than
\* one message.
C15_MessageAtEveryBatchAndAtTotal ==
    /\ progress_pc = "waited" => (BatchCounts \cup {TotalObjects}) \subseteq MessageCounts
    /\ last_messages <= 1

\* C15: every call of logAboutProgress whose count is a multiple of the batch
\* size has logged a message once it has returned, so with 1000 objects the
\* counts 256, 512 and 768 are logged; a message at any other count, the
\* total included, is there only because the timer had elapsed; no call logs
\* more than one message and no count is logged twice.
C15_MessageAtEveryBatchOthersByTimer ==
    /\ \A n \in BatchCounts :
          (n <= tables_processed /\ n \notin in_flight) => n \in MessageCounts
    /\ \A m \in messages : m.processed % PRINT_MESSAGE_EACH_N_OBJECTS # 0 => m.timed
    /\ \A m, n \in messages : m.processed = n.processed => m = n
    /\ Cardinality(messages) <= tables_processed - Cardinality(in_flight) - others_in_flight
    /\ last_messages <= 1

C15_Witness ==
    /\ progress_pc = "waited"
    /\ tables_processed = TotalObjects
    /\ TotalObjects \notin BatchCounts
    /\ MessageCounts = BatchCounts
    /\ BatchCounts # {}

====
